---- MODULE Spec2Model ----
(***************************************************************************)
(* Model of src/etl_pandas.py: the batch ETL that reads the authors,        *)
(* topics, publications and incoming publications, removes authors with a   *)
(* duplicated full_name (cleaned_authors_publications), keeps the topics     *)
(* the publications mention (get_topics) and loads the four batches into a   *)
(* Neo4j graph (load_* through Neo4jConnection.query).                       *)
(*                                                                           *)
(* Identifiers are Python strings of decimal digits; a string is modelled    *)
(* as the sequence of its digits (<<1, 2>> is "12"), so that str.replace is  *)
(* modelled as the substring replacement it is.  A data frame is the         *)
(* sequence of its rows; an authors row carries its pandas index label.      *)
(***************************************************************************)
EXTENDS Integers, Sequences, FiniteSets, TLC

VARIABLES
    pc,                     \* position of the run in __main__ / the function
    driver,                 \* Neo4jConnection.__driver: "driver" or "None"
    csv_authors,            \* data/authors.csv as get_authors() returns it
    csv_topics,             \* data/topics.csv after renaming, cast and fillna
    csv_publications,       \* data/publications.csv as get_publications() returns it
    csv_incoming_publications,
    authors,                \* the authors data frame of cleaned_authors_publications
    publications,
    incoming_publications,
    names,                  \* names of set(duplicated.full_name) not yet iterated
    iterations,             \* the iterations done: name, to_keep, to_remove, ids
    topics,                 \* pub_topic_details returned by get_topics
    author_nodes,           \* the graph: Author nodes
    topic_nodes,            \*            Topic nodes
    publication_nodes,      \*            Publication nodes
    writes,                 \*            (a)-[:WRITES]->(p) edges
    is_about,               \*            (p)-[:IS_ABOUT]->(t) edges
    printed                 \* what print(load_...(...)) printed, in order

vars == <<pc, driver, csv_authors, csv_topics, csv_publications,
          csv_incoming_publications, authors, publications,
          incoming_publications, names, iterations, topics, author_nodes,
          topic_nodes, publication_nodes, writes, is_about, printed>>

csv_vars == <<csv_authors, csv_topics, csv_publications, csv_incoming_publications>>
frame_vars == <<authors, publications, incoming_publications>>
graph_vars == <<author_nodes, topic_nodes, publication_nodes, writes, is_about>>

----------------------------------------------------------------------------
(* Bounds and the sample universes the inputs are drawn from.              *)

MaxHIndex == 2          \* h_index values are 1..MaxHIndex
MaxListLen == 1         \* longest author_list of the published record
MaxTopicListLen == 1    \* longest topic_list of a record

\* The author ids that occur: "1", "2", "11", "12" (some are digit-substrings
\* of others).  An authors file lists a sub-sequence of them.
AuthorIdPool == << <<1>>, <<2>>, <<1, 1>>, <<1, 2>> >>
TopicIdPool == << <<7>>, <<8>> >>
FullNames == {"x", "y"}
HIndexes == 1..MaxHIndex

Range(s) == {s[i] : i \in DOMAIN s}

\* All sequences over S of length at most n.
RECURSIVE SeqsUpTo(_, _)
SeqsUpTo(S, n) ==
    IF n = 0 THEN {<<>>}
    ELSE LET shorter == SeqsUpTo(S, n - 1)
         IN  shorter \cup {Append(s, x) : s \in {t \in shorter : Len(t) = n - 1}, x \in S}

\* The positions P of a pool, in increasing order.
Positions(pool, P) == SelectSeq([i \in 1..Len(pool) |-> i], LAMBDA i : i \in P)

----------------------------------------------------------------------------
(* Ingestion: the four data frames the get_* functions return.             *)

\* get_authors: rows with columns author_id, full_name, h_index,
\* research_sector and the default RangeIndex 0..n-1.
AuthorsFrame(P, nm, h) ==
    LET ps == Positions(AuthorIdPool, P)
    IN  [k \in 1..Len(ps) |->
            [index |-> k - 1,
             author_id |-> AuthorIdPool[ps[k]],
             full_name |-> nm[ps[k]],
             h_index |-> h[ps[k]],
             research_sector |-> "s"]]

AuthorsFiles ==
    UNION {{AuthorsFrame(P, nm, h) : nm \in [P -> FullNames], h \in [P -> HIndexes]} :
           P \in (SUBSET (1..Len(AuthorIdPool))) \ {{}}}

\* get_topics, lines 87-96: rows with columns topic_id and name.
TopicsFrame(P) ==
    LET ps == Positions(TopicIdPool, P)
    IN  [k \in 1..Len(ps) |-> [topic_id |-> TopicIdPool[ps[k]], name |-> "t"]]

TopicsFiles == {TopicsFrame(P) : P \in SUBSET (1..Len(TopicIdPool))}

\* get_publications / get_incoming_publications: one row per publication.
PublicationRow(id, al, tl) ==
    [publication_id |-> id, author_list |-> al, topic_list |-> tl,
     publication_year |-> 2020, doi |-> id]

----------------------------------------------------------------------------
(* cleaned_authors_publications                                            *)

\* str.replace(old, new) of Python for a non-empty old: the non-overlapping
\* occurrences of old, found left to right, are replaced by new.
RECURSIVE replace(_, _, _)
replace(y, old, new) ==
    IF Len(y) < Len(old) THEN y
    ELSE IF SubSeq(y, 1, Len(old)) = old
         THEN new \o replace(SubSeq(y, Len(old) + 1, Len(y)), old, new)
         ELSE <<Head(y)>> \o replace(Tail(y), old, new)

\* authors[authors.duplicated(['full_name'], keep=False)]: every row whose
\* full_name is the full_name of another row too.
duplicated(df) ==
    SelectSeq(df, LAMBDA r : \E i \in DOMAIN df :
                                 df[i].full_name = r.full_name /\ df[i].index # r.index)

\* authors.query(f"full_name == '{name}'")
query_full_name(df, name) == SelectSeq(df, LAMBDA r : r.full_name = name)

\* df.iloc[::-1]
iloc_reversed(df) == [i \in 1..Len(df) |-> df[Len(df) + 1 - i]]

\* A variant of idxmax that takes the last row holding the maximum.
idxmax_last(df) ==
    LET m == CHOOSE v \in {df[i].h_index : i \in DOMAIN df} :
                 \A i \in DOMAIN df : df[i].h_index <= v
        k == CHOOSE i \in DOMAIN df :
                 df[i].h_index = m /\ \A j \in DOMAIN df : df[j].h_index = m => j <= i
    IN  df[k].index

\* Series.idxmax(): the index label of the first row holding the maximum.
idxmax(df) ==
    LET m == CHOOSE v \in {df[i].h_index : i \in DOMAIN df} :
                 \A i \in DOMAIN df : df[i].h_index <= v
        k == CHOOSE i \in DOMAIN df :
                 df[i].h_index = m /\ \A j \in 1..(i - 1) : df[j].h_index # m
    IN  df[k].index

\* Series.idxmin(): the index label of the first row holding the minimum.
idxmin(df) ==
    LET m == CHOOSE v \in {df[i].h_index : i \in DOMAIN df} :
                 \A i \in DOMAIN df : v <= df[i].h_index
        k == CHOOSE i \in DOMAIN df :
                 df[i].h_index = m /\ \A j \in 1..(i - 1) : df[j].h_index # m
    IN  df[k].index

\* authors.loc[label]
loc(df, label) == df[CHOOSE i \in DOMAIN df : df[i].index = label]

\* authors.drop(label, inplace = True)
drop(df, label) == SelectSeq(df, LAMBDA r : r.index # label)

\* column.apply(lambda x: list(map(lambda y: y.replace(old, new), x)))
replace_in_author_lists(df, old, new) ==
    [i \in DOMAIN df |->
        [df[i] EXCEPT !.author_list =
            [j \in DOMAIN df[i].author_list |-> replace(df[i].author_list[j], old, new)]]]

\* A variant of line 176 that breaks a tie at the maximum by the last row.
to_keep_last_max(df, name) == idxmax_last(query_full_name(df, name))

\* Line 176: the index label of the row of the name with the highest
\* h_index (the first such row).
to_keep(df, name) == idxmax(query_full_name(df, name))

\* A variant of line 180 without the reversal .iloc[::-1].
to_remove_first_min(df, name) == idxmin(query_full_name(df, name))

\* Line 180: the index label of the row of the name with the lowest h_index,
\* searched from the last row backwards.
to_remove(df, name) == idxmin(iloc_reversed(query_full_name(df, name)))

\* The body of the for loop, lines 175-194, for one name: the three frames
\* after the iteration.
iteration(f, name) ==
    LET keep == to_keep(f.authors, name)
        id_to_keep == loc(f.authors, keep).author_id
        remove == to_remove(f.authors, name)
        id_to_remove == loc(f.authors, remove).author_id
    IN  [authors |-> drop(f.authors, remove),
         publications |->
             replace_in_author_lists(f.publications, id_to_remove, id_to_keep),
         incoming_publications |->
             replace_in_author_lists(f.incoming_publications, id_to_remove, id_to_keep)]

\* What one iteration selected (the loop's local variables).
selected(f, name) ==
    LET keep == to_keep(f.authors, name)
        remove == to_remove(f.authors, name)
    IN  [name |-> name,
         to_keep |-> keep,
         id_to_keep |-> loc(f.authors, keep).author_id,
         to_remove |-> remove,
         id_to_remove |-> loc(f.authors, remove).author_id]

\* The whole loop, lines 173-194, when the names come in the order ord.
RECURSIVE iterate(_, _)
iterate(f, ord) ==
    IF ord = <<>> THEN f ELSE iterate(iteration(f, Head(ord)), Tail(ord))

frames == [authors |-> authors, publications |-> publications,
           incoming_publications |-> incoming_publications]

\* Lines 162-167: the three frames are read and the duplicated names found.
CleanBegin ==
    /\ pc = "cleaned_authors_publications"
    /\ authors' = csv_authors
    /\ publications' = csv_publications
    /\ incoming_publications' = csv_incoming_publications
    /\ names' = {r.full_name : r \in Range(duplicated(csv_authors))}
    /\ iterations' = <<>>
    /\ pc' = "for_name"
    /\ UNCHANGED <<driver, csv_vars, topics, graph_vars, printed>>

\* Lines 173-194: one iteration; a Python set of strings is iterated in an
\* order the program does not fix, so any remaining name may come next.
CleanIteration ==
    /\ pc = "for_name"
    /\ \E name \in names :
          LET f == iteration(frames, name)
          IN  /\ authors' = f.authors
              /\ publications' = f.publications
              /\ incoming_publications' = f.incoming_publications
              /\ iterations' = Append(iterations, selected(frames, name))
              /\ names' = names \ {name}
    /\ UNCHANGED <<pc, driver, csv_vars, topics, graph_vars, printed>>

\* Line 196: the loop is over and the three frames are returned.
CleanReturn ==
    /\ pc = "for_name"
    /\ names = {}
    /\ pc' = "load_authors"
    /\ UNCHANGED <<driver, csv_vars, frame_vars, names, iterations, topics,
                   graph_vars, printed>>

NextClean == CleanBegin \/ CleanIteration \/ CleanReturn

\* cleaned_authors_publications called on every authors file of the pool,
\* with one published and one incoming record.
InitClean ==
    /\ pc = "cleaned_authors_publications"
    /\ driver = "None"
    /\ csv_authors \in AuthorsFiles
    /\ csv_topics = <<>>
    /\ \E al \in SeqsUpTo(Range(AuthorIdPool), MaxListLen) :
          csv_publications = <<PublicationRow("p", al, <<>>)>>
    /\ \E al \in SeqsUpTo(Range(AuthorIdPool), 1) :
          csv_incoming_publications = <<PublicationRow("q", al, <<>>)>>
    /\ authors = <<>>
    /\ publications = <<>>
    /\ incoming_publications = <<>>
    /\ names = {}
    /\ iterations = <<>>
    /\ topics = <<>>
    /\ author_nodes = {}
    /\ topic_nodes = {}
    /\ publication_nodes = {}
    /\ writes = {}
    /\ is_about = {}
    /\ printed = <<>>

SpecClean == InitClean /\ [][NextClean]_vars

----------------------------------------------------------------------------
(* get_topics                                                              *)

\* The NaN that Series.explode() yields for an empty list; no string equals it.
NaN == <<-1>>

\* Series.explode(): the elements of every list, NaN for an empty list.
explode(df) ==
    UNION {IF df[k].topic_list = <<>> THEN {NaN} ELSE Range(df[k].topic_list) :
           k \in DOMAIN df}

\* A variant of line 103 that leaves the incoming publications out.
pub_topics_published_only(pubs, incoming) == explode(pubs)

\* Line 103: set(pd.concat([publications, incoming_publications]).topic_list.explode())
pub_topics(pubs, incoming) == explode(pubs \o incoming)

\* Line 106: topics[topics.topic_id.apply(lambda x: x in pub_topics)]
pub_topic_details(tps, pubs, incoming) ==
    SelectSeq(tps, LAMBDA t : t.topic_id \in pub_topics(pubs, incoming))

----------------------------------------------------------------------------
(* Neo4jConnection and the load_* queries                                  *)

\* What a query call returns: None, or the one row RETURN ... as total yields.
None == [kind |-> "None"]
Response(total) == [kind |-> "rows", total |-> total]

\* A variant of query without the except clause of lines 56-57.
query_outcomes_uncaught(drv) ==
    IF drv = "None" THEN {"AssertionError"} ELSE {"response", "Exception"}

\* Neo4jConnection.query, lines 50-61: how a call can end.  The assert of
\* line 50 is outside the try; an exception of session() or run() is caught
\* and None is returned; otherwise the response is returned.
query_outcomes(drv) ==
    IF drv = "None" THEN {"AssertionError"} ELSE {"response", "None"}

\* to_dict('records') of an authors row: the columns, without the index.
AuthorNode(r) ==
    [author_id |-> r.author_id, full_name |-> r.full_name,
     h_index |-> r.h_index, research_sector |-> r.research_sector]

TopicNode(r) == [topic_id |-> r.topic_id, name |-> r.name]

\* The node MERGE (p: Publication {...}) makes or matches for a row.
PublicationNode(r) ==
    [publication_id |-> r.publication_id, publication_year |-> r.publication_year,
     doi |-> r.doi, status |-> "published"]

\* UNWIND row.author_list AS a_id MATCH (a: Author {author_id: a_id}): the
\* rows <<k, a>> that reach MERGE (a)-[:WRITES]->(p).
author_matches(df, nodes) ==
    {<<k, a>> \in (DOMAIN df) \X nodes : a.author_id \in Range(df[k].author_list)}

\* WITH row, p: the rows that are left after the author MATCH.
rows_with_author(df, nodes) == {m[1] : m \in author_matches(df, nodes)}

\* UNWIND row.topic_list AS t_id MATCH (t: Topic {topic_id: t_id}) on the
\* rows that are left: the rows <<k, t>> that reach MERGE (p)-[:IS_ABOUT]->(t).
topic_matches(df, anodes, tnodes) ==
    {<<k, t>> \in rows_with_author(df, anodes) \X tnodes :
        t.topic_id \in Range(df[k].topic_list)}

\* Line 344: conn = Neo4jConnection(); the driver is made, or making it
\* fails and __driver stays None.
NewConnection ==
    /\ pc = "connect"
    /\ \/ driver' = "driver"
       \/ driver' = "None"
    /\ pc' = "cleaned_authors_publications"
    /\ UNCHANGED <<csv_vars, frame_vars, names, iterations, topics, graph_vars, printed>>

\* Line 351: print(load_authors(conn, authors))
LoadAuthors ==
    /\ pc = "load_authors"
    /\ \/ /\ "response" \in query_outcomes(driver)
          /\ author_nodes' = author_nodes \cup {AuthorNode(r) : r \in Range(authors)}
          /\ printed' = Append(printed, Response(Len(authors)))
          /\ pc' = "get_topics"
       \/ /\ "None" \in query_outcomes(driver)
          /\ printed' = Append(printed, None)
          /\ pc' = "get_topics"
          /\ UNCHANGED author_nodes
       \/ /\ query_outcomes(driver) \cap {"AssertionError", "Exception"} # {}
          /\ pc' = "raised"
          /\ UNCHANGED <<author_nodes, printed>>
    /\ UNCHANGED <<driver, csv_vars, frame_vars, names, iterations, topics,
                   topic_nodes, publication_nodes, writes, is_about>>

\* Line 355: topics = get_topics(), which reads the three files again.
GetTopics ==
    /\ pc = "get_topics"
    /\ topics' = pub_topic_details(csv_topics, csv_publications, csv_incoming_publications)
    /\ pc' = "load_topics"
    /\ UNCHANGED <<driver, csv_vars, frame_vars, names, iterations, graph_vars, printed>>

\* Line 356: print(load_topics(conn, topics))
LoadTopics ==
    /\ pc = "load_topics"
    /\ \/ /\ "response" \in query_outcomes(driver)
          /\ topic_nodes' = topic_nodes \cup {TopicNode(r) : r \in Range(topics)}
          /\ printed' = Append(printed, Response(Len(topics)))
          /\ pc' = "load_publications"
       \/ /\ "None" \in query_outcomes(driver)
          /\ printed' = Append(printed, None)
          /\ pc' = "load_publications"
          /\ UNCHANGED topic_nodes
       \/ /\ query_outcomes(driver) \cap {"AssertionError", "Exception"} # {}
          /\ pc' = "raised"
          /\ UNCHANGED <<topic_nodes, printed>>
    /\ UNCHANGED <<driver, csv_vars, frame_vars, names, iterations, topics,
                   author_nodes, publication_nodes, writes, is_about>>

\* The query of load_publications and of load_incoming_publications (the two
\* texts are the same) run on the rows of df.
LoadRows(df, next) ==
    \/ /\ "response" \in query_outcomes(driver)
       /\ publication_nodes' =
              publication_nodes \cup {PublicationNode(r) : r \in Range(df)}
       /\ writes' = writes \cup
              {<<m[2], PublicationNode(df[m[1]])>> : m \in author_matches(df, author_nodes)}
       /\ is_about' = is_about \cup
              {<<PublicationNode(df[m[1]]), m[2]>> :
                  m \in topic_matches(df, author_nodes, topic_nodes)}
       /\ printed' = Append(printed, Response(Cardinality(
              {PublicationNode(df[m[1]]) :
                  m \in topic_matches(df, author_nodes, topic_nodes)})))
       /\ pc' = next
    \/ /\ "None" \in query_outcomes(driver)
       /\ printed' = Append(printed, None)
       /\ pc' = next
       /\ UNCHANGED <<publication_nodes, writes, is_about>>
    \/ /\ query_outcomes(driver) \cap {"AssertionError", "Exception"} # {}
       /\ pc' = "raised"
       /\ UNCHANGED <<publication_nodes, writes, is_about, printed>>

\* Line 360: print(load_publications(conn, publications))
LoadPublications ==
    /\ pc = "load_publications"
    /\ LoadRows(publications, "load_incoming_publications")
    /\ UNCHANGED <<driver, csv_vars, frame_vars, names, iterations, topics,
                   author_nodes, topic_nodes>>

\* Line 364: print(load_incoming_publications(conn, incoming_publications))
LoadIncomingPublications ==
    /\ pc = "load_incoming_publications"
    /\ LoadRows(incoming_publications, "done")
    /\ UNCHANGED <<driver, csv_vars, frame_vars, names, iterations, topics,
                   author_nodes, topic_nodes>>

Next ==
    \/ NewConnection
    \/ CleanBegin
    \/ CleanIteration
    \/ CleanReturn
    \/ LoadAuthors
    \/ GetTopics
    \/ LoadTopics
    \/ LoadPublications
    \/ LoadIncomingPublications

\* The files of a run of __main__: two authors "1" and "2", any topics of
\* the pool, one published and one incoming record.
MainAuthorsFiles ==
    {AuthorsFrame({1, 2}, nm, [i \in {1, 2} |-> 1]) : nm \in [{1, 2} -> FullNames]}

MainAuthorLists == {<<>>, << <<1>> >>, << <<1, 2>> >>}

TopicLists == SeqsUpTo(Range(TopicIdPool), MaxTopicListLen)

Init ==
    /\ pc = "connect"
    /\ driver = "None"
    /\ csv_authors \in MainAuthorsFiles
    /\ csv_topics \in TopicsFiles
    /\ \E al \in MainAuthorLists, tl \in TopicLists :
          csv_publications = <<PublicationRow("p", al, tl)>>
    /\ \E al \in MainAuthorLists, tl \in TopicLists :
          csv_incoming_publications = <<PublicationRow("q", al, tl)>>
    /\ authors = <<>>
    /\ publications = <<>>
    /\ incoming_publications = <<>>
    /\ names = {}
    /\ iterations = <<>>
    /\ topics = <<>>
    /\ author_nodes = {}
    /\ topic_nodes = {}
    /\ publication_nodes = {}
    /\ writes = {}
    /\ is_about = {}
    /\ printed = <<>>

Spec == Init /\ [][Next]_vars

----------------------------------------------------------------------------
(* Properties of cleaned_authors_publications, checked under SpecClean.    *)

\* cleaned_authors_publications has returned its three frames.
Returned == pc \notin {"connect", "cleaned_authors_publications", "for_name"}

AuthorIds(df) == {df[i].author_id : i \in DOMAIN df}
Indexes(df) == {df[i].index : i \in DOMAIN df}

\* The rows of the authors file with one full_name, and the colliding names.
Group(name) == query_full_name(csv_authors, name)
CollidingNames == {n \in FullNames : Len(Group(n)) >= 2}

\* The published and the incoming rows, read and returned, side by side.
ReadRows == csv_publications \o csv_incoming_publications
ReturnedRows == publications \o incoming_publications

\* Every reference of the files is the id of an author of the authors file.
InputReferencesResolve ==
    \A k \in DOMAIN ReadRows :
        Range(ReadRows[k].author_list) \subseteq AuthorIds(csv_authors)

\* C1: after cleaned_authors_publications returns, every element of every
\* author_list of the returned publications and incoming publications is the
\* author_id of a returned author.  Stated here for the inputs whose own
\* references all resolve, where only the rewriting can break it.
C1_ReferencesResolve ==
    (Returned /\ InputReferencesResolve) =>
        \A k \in DOMAIN ReturnedRows :
            Range(ReturnedRows[k].author_list) \subseteq AuthorIds(authors)

\* C2: after cleaned_authors_publications returns, no two returned authors
\* have the same full_name.
C2_UniqueFullNames ==
    Returned =>
        \A i, j \in DOMAIN authors :
            authors[i].full_name = authors[j].full_name => i = j

\* C3: for every collision group with removed id r and canonical id c and
\* every published and incoming record, the returned author_list is as long
\* as the one read, none of its elements is r, and every position that held
\* r holds c.
C3_RewriteComplete ==
    Returned =>
        \A n \in DOMAIN iterations : \A k \in DOMAIN ReadRows :
            LET r == iterations[n].id_to_remove
                c == iterations[n].id_to_keep
                before == ReadRows[k].author_list
                after == ReturnedRows[k].author_list
            IN  /\ Len(after) = Len(before)
                /\ \A j \in DOMAIN after : after[j] # r
                /\ \A j \in DOMAIN before : before[j] = r => after[j] = c

\* C4: an author whose full_name occurs once in the authors file is returned
\* with all fields unchanged, and every author_list position that held the
\* author's id still holds it.
C4_NoCollisionNoOp ==
    Returned =>
        \A i \in DOMAIN csv_authors :
            Len(Group(csv_authors[i].full_name)) = 1 =>
                /\ csv_authors[i] \in Range(authors)
                /\ \A k \in DOMAIN ReadRows : \A j \in DOMAIN ReadRows[k].author_list :
                       ReadRows[k].author_list[j] = csv_authors[i].author_id =>
                           ReturnedRows[k].author_list[j] = csv_authors[i].author_id

\* The row of a group with the maximum h_index, the first of them in the file.
Canonical(name) ==
    LET g == Group(name)
    IN  g[CHOOSE i \in DOMAIN g :
              /\ \A j \in DOMAIN g : g[j].h_index <= g[i].h_index
              /\ \A j \in DOMAIN g : j < i => g[j].h_index < g[i].h_index]

\* The row of a group with the minimum h_index, the last of them in the file.
LastMinimum(name) ==
    LET g == Group(name)
    IN  g[CHOOSE i \in DOMAIN g :
              /\ \A j \in DOMAIN g : g[i].h_index <= g[j].h_index
              /\ \A j \in DOMAIN g : j > i => g[i].h_index < g[j].h_index]

\* C5: for every collision group the canonical record is the one with the
\* maximum h_index, the first in ingestion order among those tied; it is among
\* the returned authors, and the record removed for the group is not, so the
\* removed record is never the canonical one.
C5_CanonicalSurvives ==
    Returned =>
        \A name \in CollidingNames :
            \E n \in DOMAIN iterations :
                /\ iterations[n].name = name
                /\ iterations[n].to_keep = Canonical(name).index
                /\ iterations[n].id_to_keep = Canonical(name).author_id
                /\ Canonical(name) \in Range(authors)
                /\ iterations[n].to_remove \notin Indexes(authors)
                /\ iterations[n].to_remove # iterations[n].to_keep

\* A group whose h_index values are all equal has been processed.
C5_Witness ==
    /\ Returned
    /\ \E name \in CollidingNames :
           /\ \A i, j \in DOMAIN Group(name) : Group(name)[i].h_index = Group(name)[j].h_index
           /\ Canonical(name) \in Range(authors)

\* C6: the returned frames do not depend on the order in which the colliding
\* names are iterated.
Orders(S) == {ord \in SeqsUpTo(S, Cardinality(S)) : Range(ord) = S}

C6_OrderIrrelevant ==
    Returned =>
        \A ord \in Orders(CollidingNames) :
            iterate([authors |-> csv_authors,
                     publications |-> csv_publications,
                     incoming_publications |-> csv_incoming_publications], ord) = frames

----------------------------------------------------------------------------
(* Properties of the run of __main__, checked under Spec.                  *)

\* The four load calls, in the order __main__ makes them.
LoadCalls == <<"load_authors", "load_topics", "load_publications",
               "load_incoming_publications">>

\* The n-th load call has returned a response (its query succeeded).
Loaded(n) == Len(printed) >= n /\ printed[n].kind = "rows"

\* Every edge the rows of df ask for, between nodes that exist, is in the graph.
EdgesCreated(df) ==
    \A k \in DOMAIN df :
        /\ \A a \in author_nodes :
               a.author_id \in Range(df[k].author_list) =>
                   <<a, PublicationNode(df[k])>> \in writes
        /\ \A t \in topic_nodes :
               t.topic_id \in Range(df[k].topic_list) =>
                   <<PublicationNode(df[k]), t>> \in is_about

\* C7: after a successful load_publications or load_incoming_publications,
\* every record has a WRITES edge from every Author node whose author_id is in
\* its author_list and an IS_ABOUT edge to every Topic node whose topic_id is
\* in its topic_list, also when no author of the record has a node.
C7_AllEdgesCreated ==
    /\ Loaded(3) => EdgesCreated(publications)
    /\ Loaded(4) => EdgesCreated(incoming_publications)

\* C8 as stated: no load call lets an exception escape to its caller,
\* whether the driver was constructed or not.
C8_NoExceptionEscapes == pc # "raised"

\* C8 as amended: on a connection whose driver was constructed every load
\* call returns, with a response or with None, and the run goes on to the next
\* load call until all four have printed; only when the driver failed to
\* construct does an exception (the AssertionError of query) escape, out of the
\* first load call, before anything is loaded.
C8_OnlyAssertionEscapes ==
    /\ pc = "raised" => (driver = "None" /\ printed = <<>>)
    /\ \A n \in DOMAIN printed : printed[n] = None \/ printed[n].kind = "rows"
    /\ (driver = "driver" /\ pc \in Range(LoadCalls)) =>
           \E n \in DOMAIN LoadCalls : pc = LoadCalls[n] /\ Len(printed) = n - 1
    /\ pc = "done" => (driver = "driver" /\ Len(printed) = Len(LoadCalls))
    /\ author_nodes \cup topic_nodes \cup publication_nodes # {} => driver = "driver"

\* A query failed, None was printed, and a later load call loaded its batch.
C8_Witness ==
    /\ pc = "done"
    /\ \E i, j \in DOMAIN printed : i < j /\ printed[i] = None /\ printed[j].kind = "rows"

\* get_topics has returned.
TopicsReturned == pc \in {"load_topics", "load_publications",
                          "load_incoming_publications", "done"}

\* Some published or incoming record has the id in its topic_list.
Referenced(id) == \E k \in DOMAIN ReadRows : id \in Range(ReadRows[k].topic_list)

\* C9: get_topics returns exactly the topics a record references: every
\* returned topic is a topic of the file, fields unchanged, whose topic_id is in
\* the topic_list of a published or incoming record, in the order of the file,
\* and no topic of the file that is left out is in any topic_list.
C9_TopicsReferenced ==
    TopicsReturned =>
        /\ \A t \in Range(topics) : t \in Range(csv_topics) /\ Referenced(t.topic_id)
        /\ \A t \in Range(csv_topics) : t \notin Range(topics) => ~Referenced(t.topic_id)
        /\ Cardinality(Range(topics)) = Len(topics)

\* A topic only an incoming record references is returned, another is dropped.
C9_Witness ==
    /\ TopicsReturned
    /\ \E t \in Range(topics) :
           \A k \in DOMAIN csv_publications :
               t.topic_id \notin Range(csv_publications[k].topic_list)
    /\ \E t \in Range(csv_topics) : t \notin Range(topics)

====
